---- MODULE Spec2Model ----
(***************************************************************************)
(* Model of the podcast ingestion pipeline of src/features/rss_ingest.py   *)
(* and of its driver in src/main.py: resolve_feed_url, transcribe_audio    *)
(* and download_episodes_from_rss.                                         *)
(*                                                                         *)
(* Strings are sequences of symbols.  A symbol is one character, or a      *)
(* chunk of characters that contains none of the patterns the code tests   *)
(* for ("id" + digit, "rss", ".xml") except the host name, which is the    *)
(* single symbol "podcasts.apple.com".                                     *)
(***************************************************************************)
EXTENDS Integers, Sequences, FiniteSets, TLC

\* ---------------------------------------------------------------- bounds
MaxLocLen == 5      \* longest locator enumerated for resolve_feed_url
MaxEntries == 2     \* most entries in a fetched feed
MaxLimit == 3       \* largest limit argument enumerated
MaxNegLimit == 1    \* limits down to -MaxNegLimit are enumerated

\* ------------------------------------------------------- string helpers
Min(a, b) == IF a < b THEN a ELSE b
Max(a, b) == IF a > b THEN a ELSE b

Digits == {"1", "2"}

\* Python: pat in s
Contains(s, pat) ==
    \E k \in 1..(Len(s) - Len(pat) + 1) : SubSeq(s, k, k + Len(pat) - 1) = pat

\* Python: s.endswith(pat)
EndsWith(s, pat) ==
    /\ Len(s) >= Len(pat)
    /\ SubSeq(s, Len(s) - Len(pat) + 1, Len(s)) = pat

\* Optional values: Python None against a value.
None == [some |-> FALSE, val |-> << >>]
Some(v) == [some |-> TRUE, val |-> v]

AppleHost == <<"podcasts.apple.com">>
DotXml == <<".", "x", "m", "l">>
Rss == <<"r", "s", "s">>
AppleFeedPrefix == <<"https://", "podcasts.apple.com", "/", "r", "s", "s", "/podcast/">>

\* Mutant of DigitRun: the pattern id(\d) in place of id(\d+).
DigitRun_OneDigit(s, k) == <<s[k]>>

\* \d+ is greedy: the digits from position k up to the first non-digit.
RECURSIVE DigitRun(_, _)
DigitRun(s, k) ==
    IF k > Len(s) \/ s[k] \notin Digits THEN << >>
    ELSE <<s[k]>> \o DigitRun(s, k + 1)

\* re.search(r'id(\d+)', s): scan left to right from position k for the first
\* place where "id" is followed by a digit; group(1) is the digit run there.
RECURSIVE ReSearchId(_, _)
ReSearchId(s, k) ==
    IF k + 2 > Len(s) THEN None
    ELSE IF s[k] = "i" /\ s[k + 1] = "d" /\ s[k + 2] \in Digits
         THEN Some(DigitRun(s, k + 2))
         ELSE ReSearchId(s, k + 1)

\* Mutant of resolve_feed_url: the '"rss" in user_input' test is missing.
resolve_feed_url_NoRssTest(user_input) ==
    IF Contains(user_input, AppleHost)
    THEN LET match == ReSearchId(user_input, 1)
         IN  IF match.some
             THEN Some(AppleFeedPrefix \o match.val \o DotXml)
             ELSE None
    ELSE IF EndsWith(user_input, DotXml)
         THEN Some(user_input)
         ELSE None

resolve_feed_url(user_input) ==
    IF Contains(user_input, AppleHost)
    THEN LET match == ReSearchId(user_input, 1)
         IN  IF match.some
             THEN Some(AppleFeedPrefix \o match.val \o DotXml)
             ELSE None
    ELSE IF EndsWith(user_input, DotXml) \/ Contains(user_input, Rss)
         THEN Some(user_input)
         ELSE None

\* ------------------------------------------------------------- locators
LocatorAlphabet ==
    {"podcasts.apple.com", "i", "d", "1", "2", "r", "s", ".", "x", "m", "l"}

\* the locators of exactly n symbols
LocatorsOfLen(n) == [1..n -> LocatorAlphabet]

SampleLocators ==
    { <<"https://", "podcasts.apple.com", "/us/podcast/foo/", "i", "d", "1", "2", "1">>,
      <<"https://", "podcasts.apple.com", "/us/podcast/foo">>,
      <<"https://example.com/feed", ".", "x", "m", "l">>,
      <<"https://example.com/show">> }

\* ---------------------------------------------------------------- feeds
Titles == { <<"a", " ", "/">>, <<"a", "_", "-">>, <<"b">> }
EnclosureLists ==
    { << >>, << <<"http://cdn/e1.mp3">> >>, << <<"http://cdn/e2.mp3">>, <<"http://cdn/e1.mp3">> >> }
ContentValues == { << >>, <<"t1">> }
SummaryValues == { << >>, <<"t2">> }

Entries ==
    [title : Titles, enclosures : EnclosureLists,
     content : ContentValues, summary : SummaryValues]

\* feedparser.parse(url).entries; an unreachable or malformed feed parses to
\* no entries.
Feeds == UNION {[1..n -> Entries] : n \in 0..MaxEntries}

DefaultLimit == 3   \* def download_episodes_from_rss(rss_url, limit=3)
MainLimit == 3      \* main.py: download_episodes_from_rss(rss_url, limit=3)
Limits == (0 - MaxNegLimit)..MaxLimit

\* Mutant of PySliceTo: the slice keeps one entry too many.
PySliceTo_OffByOne(s, n) ==
    IF n >= 0 THEN SubSeq(s, 1, Min(n + 1, Len(s)))
    ELSE SubSeq(s, 1, Max(Len(s) + n, 0))

\* Python: s[:n]
PySliceTo(s, n) ==
    IF n >= 0 THEN SubSeq(s, 1, Min(n, Len(s)))
    ELSE SubSeq(s, 1, Max(Len(s) + n, 0))

\* ------------------------------------------------- per-episode operators
ReplaceChar(c) == IF c = " " THEN "_" ELSE IF c = "/" THEN "-" ELSE c

\* entry.title.replace(" ", "_").replace("/", "-")
Sanitize(t) == [k \in 1..Len(t) |-> ReplaceChar(t[k])]

\* entry.enclosures[0].href if entry.enclosures else None
AudioUrlOf(e) == IF e.enclosures # << >> THEN Some(e.enclosures[1]) ELSE None

\* Mutant of TranscriptTextOf: summary is tried before content.
TranscriptTextOf_SummaryFirst(e) == IF e.summary # << >> THEN e.summary ELSE e.content

\* entry.get("content", [{}])[0].get("value", "") or entry.get("summary", "")
TranscriptTextOf(e) == IF e.content # << >> THEN e.content ELSE e.summary

DownloadsDir == <<"downloads">>
TranscriptPath(e) == DownloadsDir \o <<"/">> \o Sanitize(e.title) \o <<"_transcript.txt">>
AudioPath(e) == DownloadsDir \o <<"/">> \o Sanitize(e.title) \o <<".mp3">>

\* Python truthiness of audio_url: None and "" are false.
Truthy(o) == o.some /\ o.val # << >>

\* The collaborators' results on success.
ResponseContent(url) == <<"audio-of">> \o url
WhisperText(bytes) == <<"whisper-of">> \o bytes

\* ---------------------------------------------------------------- state
VARIABLES
    caller,      \* "main" (main.py), "ingest" (rss_ingest __main__), "api" (direct call)
    pc,          \* position of the single thread
    locator,     \* user_input / apple_url
    rss_url,     \* result of resolve_feed_url, or the argument of a direct call
    limit,       \* limit argument of download_episodes_from_rss
    feed,        \* feed.entries once parsed
    fetched,     \* feedparser.parse was called
    episodes,    \* feed.entries[:limit]
    idx,         \* 1-based position of the for loop in episodes
    dirCreated,  \* downloads/ exists
    files,       \* the files under downloads/: path -> content
    held,        \* response.content, then whisper_transcript, of the episode in hand
    outcomes,    \* the per-episode report lines, in the order printed
    log          \* every download, file write and transcription call, in order

vars == <<caller, pc, locator, rss_url, limit, feed, fetched, episodes, idx,
          dirCreated, files, held, outcomes, log>>

Init ==
    /\ caller \in {"main", "ingest", "api"}
    /\ pc = IF caller = "api" THEN "call" ELSE "start"
    /\ locator \in IF caller = "api" THEN { << >> } ELSE SampleLocators
    /\ rss_url = IF caller = "api" THEN Some(<<"https://example.com/feed", ".", "x", "m", "l">>) ELSE None
    /\ limit \in IF caller = "api" THEN Limits
                 ELSE IF caller = "main" THEN {MainLimit} ELSE {DefaultLimit}
    /\ feed = << >>
    /\ fetched = FALSE
    /\ episodes = << >>
    /\ idx = 0
    /\ dirCreated = FALSE
    /\ files = << >>
    /\ held = << >>
    /\ outcomes = << >>
    /\ log = << >>

InitResolve ==
    /\ caller = "ingest"
    /\ pc = "start"
    /\ \E n \in 0..MaxLocLen : locator \in LocatorsOfLen(n)
    /\ rss_url = None
    /\ limit = DefaultLimit
    /\ feed = << >>
    /\ fetched = FALSE
    /\ episodes = << >>
    /\ idx = 0
    /\ dirCreated = FALSE
    /\ files = << >>
    /\ held = << >>
    /\ outcomes = << >>
    /\ log = << >>

\* files with path p holding content c (open(p, "w") creates or truncates)
WriteFile(f, p, c) == [q \in (DOMAIN f) \cup {p} |-> IF q = p THEN c ELSE f[q]]

Report(k, kind) == [ep |-> k, kind |-> kind]
Event(k, op, path, data, ok) == [ep |-> k, op |-> op, path |-> path, data |-> data, ok |-> ok]

cur == episodes[idx]

\* Mutant of Resolve: the result of resolve_feed_url is not tested.
Resolve_NoCheck ==
    /\ pc = "start"
    /\ rss_url' = resolve_feed_url(locator)
    /\ pc' = "call"
    /\ UNCHANGED <<caller, locator, limit, feed, fetched, episodes, idx,
                   dirCreated, files, held, outcomes, log>>

\* main.py 29-34 and rss_ingest.py 80-86: resolve the locator; a falsy result
\* ends the run.
Resolve ==
    /\ pc = "start"
    /\ rss_url' = resolve_feed_url(locator)
    /\ pc' = IF rss_url'.some /\ rss_url'.val # << >> THEN "call" ELSE "halted"
    /\ UNCHANGED <<caller, locator, limit, feed, fetched, episodes, idx,
                   dirCreated, files, held, outcomes, log>>

\* rss_ingest.py 42-45: parse the feed, slice it, create downloads/.
Fetch ==
    /\ pc = "call"
    /\ \E f \in Feeds :
         /\ feed' = f
         /\ episodes' = PySliceTo(f, limit)
    /\ fetched' = TRUE
    /\ dirCreated' = TRUE
    /\ idx' = 1
    /\ pc' = "loop"
    /\ UNCHANGED <<caller, locator, rss_url, limit, files, held, outcomes, log>>

\* for entry in episodes: exhausted
LoopExit ==
    /\ pc = "loop"
    /\ idx > Len(episodes)
    /\ pc' = "done"
    /\ UNCHANGED <<caller, locator, rss_url, limit, feed, fetched, episodes, idx,
                   dirCreated, files, held, outcomes, log>>

\* rss_ingest.py 54-58: the entry carries its transcript; write it and continue.
\* A failing open() raises out of the function.
SaveEmbedded ==
    /\ pc = "loop"
    /\ idx <= Len(episodes)
    /\ TranscriptTextOf(cur) # << >>
    /\ \E ok \in BOOLEAN :
         IF ok
         THEN /\ files' = WriteFile(files, TranscriptPath(cur), TranscriptTextOf(cur))
              /\ log' = Append(log, Event(idx, "write", TranscriptPath(cur), TranscriptTextOf(cur), TRUE))
              /\ outcomes' = Append(outcomes, Report(idx, "SavedFromFeed"))
              /\ idx' = idx + 1
              /\ pc' = "loop"
         ELSE /\ pc' = "aborted"
              /\ UNCHANGED <<files, log, outcomes, idx>>
    /\ UNCHANGED <<caller, locator, rss_url, limit, feed, fetched, episodes,
                   dirCreated, held>>

\* rss_ingest.py 60-63: requests.get(audio_url); a failing request raises out of
\* the function.
Download ==
    /\ pc = "loop"
    /\ idx <= Len(episodes)
    /\ TranscriptTextOf(cur) = << >>
    /\ Truthy(AudioUrlOf(cur))
    /\ \E ok \in BOOLEAN :
         IF ok
         THEN /\ held' = ResponseContent(AudioUrlOf(cur).val)
              /\ log' = Append(log, Event(idx, "download", AudioUrlOf(cur).val, << >>, TRUE))
              /\ pc' = "save"
         ELSE /\ log' = Append(log, Event(idx, "download", AudioUrlOf(cur).val, << >>, FALSE))
              /\ pc' = "aborted"
              /\ UNCHANGED held
    /\ UNCHANGED <<caller, locator, rss_url, limit, feed, fetched, episodes, idx,
                   dirCreated, files, outcomes>>

\* rss_ingest.py 64-66: write response.content to <title>.mp3.
SaveAudio ==
    /\ pc = "save"
    /\ \E ok \in BOOLEAN :
         IF ok
         THEN /\ files' = WriteFile(files, AudioPath(cur), held)
              /\ log' = Append(log, Event(idx, "write", AudioPath(cur), held, TRUE))
              /\ pc' = "transcribe"
         ELSE /\ pc' = "aborted"
              /\ UNCHANGED <<files, log>>
    /\ UNCHANGED <<caller, locator, rss_url, limit, feed, fetched, episodes, idx,
                   dirCreated, held, outcomes>>

\* Mutant of Transcribe: no try/except around transcribe_audio.
Transcribe_Uncaught ==
    /\ pc = "transcribe"
    /\ \E ok \in BOOLEAN :
         IF ok /\ AudioPath(cur) \in DOMAIN files
         THEN /\ held' = WhisperText(files[AudioPath(cur)])
              /\ log' = Append(log, Event(idx, "transcribe", AudioPath(cur), << >>, TRUE))
              /\ pc' = "write"
         ELSE /\ log' = Append(log, Event(idx, "transcribe", AudioPath(cur), << >>, FALSE))
              /\ pc' = "aborted"
              /\ UNCHANGED held
    /\ UNCHANGED <<caller, locator, rss_url, limit, feed, fetched, episodes, idx,
                   dirCreated, files, outcomes>>

\* rss_ingest.py 68-69 and 31-38: transcribe_audio opens the saved file and
\* hands it to the collaborator; any exception is caught at line 73.
Transcribe ==
    /\ pc = "transcribe"
    /\ \E ok \in BOOLEAN :
         IF ok /\ AudioPath(cur) \in DOMAIN files
         THEN /\ held' = WhisperText(files[AudioPath(cur)])
              /\ log' = Append(log, Event(idx, "transcribe", AudioPath(cur), << >>, TRUE))
              /\ pc' = "write"
              /\ UNCHANGED <<outcomes, idx>>
         ELSE /\ log' = Append(log, Event(idx, "transcribe", AudioPath(cur), << >>, FALSE))
              /\ outcomes' = Append(outcomes, Report(idx, "TranscriptionFailed"))
              /\ idx' = idx + 1
              /\ pc' = "loop"
              /\ held' = << >>
    /\ UNCHANGED <<caller, locator, rss_url, limit, feed, fetched, episodes,
                   dirCreated, files>>

\* rss_ingest.py 70-74: write the whisper transcript; a failing open() is caught
\* by the same except clause.
WriteTranscript ==
    /\ pc = "write"
    /\ \E ok \in BOOLEAN :
         IF ok
         THEN /\ files' = WriteFile(files, TranscriptPath(cur), held)
              /\ log' = Append(log, Event(idx, "write", TranscriptPath(cur), held, TRUE))
              /\ outcomes' = Append(outcomes, Report(idx, "SavedFromAudio"))
         ELSE /\ outcomes' = Append(outcomes, Report(idx, "TranscriptionFailed"))
              /\ UNCHANGED <<files, log>>
    /\ idx' = idx + 1
    /\ pc' = "loop"
    /\ held' = << >>
    /\ UNCHANGED <<caller, locator, rss_url, limit, feed, fetched, episodes,
                   dirCreated>>

\* Mutant of NoAudio: the (empty) transcript is written before the audio test.
NoAudio_WritesEmpty ==
    /\ pc = "loop"
    /\ idx <= Len(episodes)
    /\ TranscriptTextOf(cur) = << >>
    /\ ~Truthy(AudioUrlOf(cur))
    /\ files' = WriteFile(files, TranscriptPath(cur), << >>)
    /\ outcomes' = Append(outcomes, Report(idx, "AudioMissing"))
    /\ idx' = idx + 1
    /\ UNCHANGED <<caller, pc, locator, rss_url, limit, feed, fetched, episodes,
                   dirCreated, held, log>>

\* rss_ingest.py 75-76: neither transcript nor audio.
NoAudio ==
    /\ pc = "loop"
    /\ idx <= Len(episodes)
    /\ TranscriptTextOf(cur) = << >>
    /\ ~Truthy(AudioUrlOf(cur))
    /\ outcomes' = Append(outcomes, Report(idx, "AudioMissing"))
    /\ idx' = idx + 1
    /\ UNCHANGED <<caller, pc, locator, rss_url, limit, feed, fetched, episodes,
                   dirCreated, files, held, log>>

Next ==
    \/ Resolve
    \/ Fetch
    \/ LoopExit
    \/ SaveEmbedded
    \/ Download
    \/ SaveAudio
    \/ Transcribe
    \/ WriteTranscript
    \/ NoAudio

Spec == Init /\ [][Next]_vars

\* resolve_feed_url alone, over every locator up to MaxLocLen symbols.
NextResolve == Resolve

SpecResolve == InitResolve /\ [][NextResolve]_vars

\* ------------------------------------------------------ resolve_feed_url
\* C7: for a locator that contains 'podcasts.apple.com', if 'id' followed by a
\* digit occurs in it, resolve_feed_url returns
\* 'https://podcasts.apple.com/rss/podcast/<digits>.xml' where <digits> is the
\* maximal run of digits after the first such 'id'; otherwise it returns None.
C7_AppleFeedUrl ==
    (pc # "start" /\ Contains(locator, <<"podcasts.apple.com">>)) =>
        LET s == locator
            IdDigitAt(k) == /\ k + 2 <= Len(s)
                            /\ s[k] = "i" /\ s[k + 1] = "d"
                            /\ s[k + 2] \in {"1", "2"}
        IN  IF \E k \in 1..Len(s) : IdDigitAt(k)
            THEN \E k \in 1..Len(s), n \in 1..Len(s) :
                    /\ IdDigitAt(k)
                    /\ \A j \in 1..(k - 1) : ~IdDigitAt(j)
                    /\ k + 1 + n <= Len(s)
                    /\ \A m \in (k + 2)..(k + 1 + n) : s[m] \in {"1", "2"}
                    /\ (k + 2 + n > Len(s) \/ s[k + 2 + n] \notin {"1", "2"})
                    /\ rss_url.some
                    /\ rss_url.val =
                          <<"https://", "podcasts.apple.com", "/", "r", "s", "s", "/podcast/">>
                          \o SubSeq(s, k + 2, k + 1 + n) \o <<".", "x", "m", "l">>
            ELSE ~rss_url.some

\* C7 witness: an Apple locator whose id has two digits, followed by more text,
\* was resolved to the feed URL carrying both digits.
C7_Witness ==
    /\ pc = "call"
    /\ locator = <<"podcasts.apple.com", "i", "d", "1", "2">>
    /\ rss_url.val = <<"https://", "podcasts.apple.com", "/", "r", "s", "s", "/podcast/",
                       "1", "2", ".", "x", "m", "l">>

\* C8 as stated: every locator that ends in '.xml' or contains 'rss' is
\* returned unchanged, whatever else it contains.
C8_Original ==
    (pc # "start" /\ (EndsWith(locator, <<".", "x", "m", "l">>)
                        \/ Contains(locator, <<"r", "s", "s">>)))
        => (rss_url.some /\ rss_url.val = locator)

\* C8 amended: every locator that does not contain 'podcasts.apple.com' and
\* ends in '.xml' or contains 'rss' is returned unchanged.
C8_NonAppleUnchanged ==
    (/\ pc # "start"
     /\ ~Contains(locator, <<"podcasts.apple.com">>)
     /\ (EndsWith(locator, <<".", "x", "m", "l">>) \/ Contains(locator, <<"r", "s", "s">>)))
        => (rss_url.some /\ rss_url.val = locator)

\* C8 witness: a locator that contains 'rss', does not end in '.xml' and was
\* returned unchanged.
C8_Witness ==
    /\ pc = "call"
    /\ Contains(locator, <<"r", "s", "s">>)
    /\ ~EndsWith(locator, <<".", "x", "m", "l">>)
    /\ ~Contains(locator, <<"podcasts.apple.com">>)
    /\ rss_url.val = locator

\* --------------------------------------------- download_episodes_from_rss
\* C1: for an episode whose embedded transcript (content value, else summary)
\* is non-empty, no download and no transcription call is made, even with an
\* audio URL; the one file written is <title>_transcript.txt and, once the
\* episode is reported, it holds exactly the embedded transcript.
C1_EmbeddedOnly ==
    \A k \in 1..Len(episodes) :
        LET e == episodes[k]
            text == IF e.content # << >> THEN e.content ELSE e.summary
            IsK(ev) == ev.ep = k
            evs == SelectSeq(log, IsK)
        IN  text # << >> =>
              /\ Len(evs) <= 1
              /\ \A n \in DOMAIN evs :
                    /\ evs[n].op = "write"
                    /\ evs[n].path = TranscriptPath(e)
                    /\ evs[n].data = text
              /\ k \in DOMAIN outcomes =>
                    (outcomes[k].kind = "SavedFromFeed" /\ Len(evs) = 1)
              /\ (pc = "loop" /\ idx = k + 1) =>
                    (/\ TranscriptPath(e) \in DOMAIN files
                     /\ files[TranscriptPath(e)] = text
                     /\ AudioPath(e) \in DOMAIN files =>
                           \E j \in 1..(k - 1) : AudioPath(episodes[j]) = AudioPath(e))

\* C1 witness: an episode with an audio URL and with both content and summary
\* was saved from the feed.
C1_Witness ==
    \E k \in DOMAIN outcomes :
        /\ outcomes[k].kind = "SavedFromFeed"
        /\ episodes[k].enclosures # << >>
        /\ episodes[k].content # << >>
        /\ episodes[k].summary # << >>

\* C2 as stated: whatever fails while an episode is processed, the run goes on;
\* when the run ends every one of the N episodes has an outcome, in feed order.
C2_Claim ==
    pc \in {"done", "aborted"} =>
        /\ Len(outcomes) = Len(episodes)
        /\ \A k \in DOMAIN outcomes : outcomes[k].ep = k

\* C3 as stated: when transcription fails for episode k, the run still ends
\* with N outcomes in feed order, and the files of the other episodes are those
\* of the run in which k's transcription succeeds: a transcript file that an
\* earlier episode wrote at k's transcript path is rewritten by a later one
\* (otherwise that run leaves k's text there and this run the earlier text).
C3_Claim ==
    \A k \in 1..Len(episodes) :
        (\E n \in DOMAIN log : log[n].ep = k /\ log[n].op = "transcribe" /\ ~log[n].ok)
          => /\ pc \in {"done", "aborted"} =>
                  /\ pc = "done"
                  /\ Len(outcomes) = Len(episodes)
                  /\ \A j \in DOMAIN outcomes : outcomes[j].ep = j
             /\ pc = "done" =>
                  \A n \in DOMAIN log :
                      (/\ log[n].ep < k
                       /\ log[n].op = "write"
                       /\ log[n].path = TranscriptPath(episodes[k]))
                        => \E m \in DOMAIN log :
                              /\ log[m].ep > k
                              /\ log[m].op = "write"
                              /\ log[m].path = TranscriptPath(episodes[k])

\* C4: for an episode with no embedded transcript and an audio URL the steps
\* are download, save <title>.mp3, transcribe, write <title>_transcript.txt, in
\* that order and each only after the one before succeeded; on success both
\* files exist; when transcription fails the audio file exists and the
\* outcome is TranscriptionFailed.
C4_AudioOrder ==
    \A k \in 1..Len(episodes) :
        LET e == episodes[k]
            text == IF e.content # << >> THEN e.content ELSE e.summary
            IsK(ev) == ev.ep = k
            evs == SelectSeq(log, IsK)
            ops == <<"download", "write", "transcribe", "write">>
            url == e.enclosures[1]
            paths == <<url, AudioPath(e), AudioPath(e), TranscriptPath(e)>>
        IN  (text = << >> /\ e.enclosures # << >>) =>
              /\ Len(evs) <= 4
              /\ \A n \in DOMAIN evs :
                    /\ evs[n].op = ops[n]
                    /\ evs[n].path = paths[n]
                    /\ n < Len(evs) => evs[n].ok
              /\ Len(evs) >= 2 => evs[2].data = <<"audio-of">> \o url
              /\ Len(evs) = 4 => evs[4].data = <<"whisper-of", "audio-of">> \o url
              /\ Len(evs) >= 3 => AudioPath(e) \in DOMAIN files
              /\ (pc = "transcribe" /\ idx = k) =>
                    files[AudioPath(e)] = <<"audio-of">> \o url
              /\ k \in DOMAIN outcomes =>
                    \/ /\ outcomes[k].kind = "SavedFromAudio"
                       /\ Len(evs) = 4
                       /\ AudioPath(e) \in DOMAIN files
                       /\ TranscriptPath(e) \in DOMAIN files
                    \/ /\ outcomes[k].kind = "TranscriptionFailed"
                       /\ Len(evs) = 3
                       /\ AudioPath(e) \in DOMAIN files
              /\ (Len(evs) >= 3 /\ ~evs[3].ok) =>
                    /\ k \in DOMAIN outcomes
                    /\ outcomes[k].kind = "TranscriptionFailed"

\* C4 witness: one audio episode was saved from audio and another one failed
\* transcription with its audio file on disk.
C4_Witness ==
    /\ \E k \in DOMAIN outcomes :
          /\ outcomes[k].kind = "SavedFromAudio"
          /\ AudioPath(episodes[k]) \in DOMAIN files
          /\ TranscriptPath(episodes[k]) \in DOMAIN files
    /\ \E k \in DOMAIN outcomes, n \in DOMAIN log :
          /\ outcomes[k].kind = "TranscriptionFailed"
          /\ log[n].ep = k /\ log[n].op = "transcribe" /\ ~log[n].ok
          /\ AudioPath(episodes[k]) \in DOMAIN files

\* C5: processing an episode with no embedded transcript and no audio URL
\* changes no file, makes no download or transcription call, and reports
\* AudioMissing.
C5_NoAudioNoWrite ==
    [][(/\ pc = "loop"
        /\ idx <= Len(episodes)
        /\ episodes[idx].content = << >>
        /\ episodes[idx].summary = << >>
        /\ episodes[idx].enclosures = << >>)
        => (/\ files' = files
            /\ log' = log
            /\ dirCreated' = dirCreated
            /\ outcomes' = Append(outcomes, [ep |-> idx, kind |-> "AudioMissing"]))]_vars

\* C5 witness: an episode without transcript and audio was reported after an
\* earlier episode had written a file.
C5_Witness ==
    \E k \in DOMAIN outcomes :
        /\ outcomes[k].kind = "AudioMissing"
        /\ episodes[k].enclosures = << >>
        /\ k > 1
        /\ DOMAIN files # {}

\* C6: when resolve_feed_url returns None the run halts: the feed is not
\* fetched, download_episodes_from_rss is not entered, downloads/ is not
\* created and nothing is written.
C6_HaltOnNone ==
    (caller # "api" /\ pc # "start" /\ ~rss_url.some) =>
        /\ pc = "halted"
        /\ ~fetched
        /\ ~dirCreated
        /\ DOMAIN files = {}
        /\ episodes = << >>
        /\ log = << >>
        /\ outcomes = << >>

\* C6 witness: the run halted on an Apple locator without an id.
C6_Witness ==
    /\ pc = "halted"
    /\ Contains(locator, <<"podcasts.apple.com">>)
    /\ ~rss_url.some

C10_Claim ==
    \A m, n \in DOMAIN log :
        (m < n /\ log[m].op = "write" /\ log[n].op = "write")
            => log[m].path # log[n].path
====
